---- MODULE Spec2Model ----
(***************************************************************************)
(* State-machine model of the GitHub -> Airtable issue importer            *)
(* (githubAirtableImport).  JavaScript values are modelled as tagged       *)
(* records so that strict equality, truthiness and instanceof Array can be *)
(* evaluated as the code evaluates them.  Strings are sequences of         *)
(* one-character strings so that join(',') and split(',') are computed.    *)
(***************************************************************************)
EXTENDS Integers, Sequences, FiniteSets, TLC

\* ---------------------------------------------------------------- bounds
MaxIssues == 2
MaxRows == 2
MaxBulk == 23

\* ------------------------------------------------------ program constants
\* airtable max is 10 at a time
ChunkSize == 10

\* ------------------------------------------------------------- JS values
Undef == [t |-> "undef", s |-> <<>>, n |-> 0, a |-> <<>>]
Null == [t |-> "null", s |-> <<>>, n |-> 0, a |-> <<>>]
Str(cs) == [t |-> "str", s |-> cs, n |-> 0, a |-> <<>>]
Num(k) == [t |-> "num", s |-> <<>>, n |-> k, a |-> <<>>]
Arr(xs) == [t |-> "arr", s |-> <<>>, n |-> 0, a |-> xs]

\* !v : undefined, null, "" and 0 are falsy; arrays are always truthy
Falsy(v) ==
  \/ v.t \in {"undef", "null"}
  \/ v.t = "str" /\ v.s = <<>>
  \/ v.t = "num" /\ v.n = 0

\* (v || undefined)
OrUndefined(v) == IF Falsy(v) THEN Undef ELSE v

\* v instanceof Array
IsArray(v) == v.t = "arr"

\* obj[key] on a plain object: a missing property reads as undefined
Get(obj, key) == IF key \in DOMAIN obj THEN obj[key] ELSE Undef

\* ------------------------------------------------------------- strings
COMMA == ","

RECURSIVE Join(_)
\* Array.prototype.join(',') over an array of strings
Join(names) ==
  IF names = <<>> THEN <<>>
  ELSE IF Len(names) = 1 THEN names[1]
  ELSE names[1] \o <<COMMA>> \o Join(Tail(names))

RECURSIVE SplitFrom(_, _)
\* pieces of cs between commas, cur being the piece read so far
SplitFrom(cs, cur) ==
  IF cs = <<>> THEN <<cur>>
  ELSE IF Head(cs) = COMMA THEN <<cur>> \o SplitFrom(Tail(cs), <<>>)
  ELSE SplitFrom(Tail(cs), Append(cur, Head(cs)))

\* String.prototype.split(',') : "" gives [""], "a,,b" gives ["a","","b"]
Split(cs) == SplitFrom(cs, <<>>)

\* arr.filter((v) => !!v) over an array of strings
NonEmpty(xs) == SelectSeq(xs, LAMBDA v : v # <<>>)

Range(f) == {f[i] : i \in DOMAIN f}

Digit(d) == <<"0", "1", "2", "3", "4", "5", "6", "7", "8", "9">>[d + 1]

RECURSIVE Decimal(_)
\* String(k) for a non-negative integer
Decimal(k) == IF k < 10 THEN <<Digit(k)>> ELSE Decimal(k \div 10) \o <<Digit(k % 10)>>

\* property-key conversion of Object.fromEntries / obj[key]
PropertyKey(v) ==
  CASE v.t = "num" -> Decimal(v.n)
    [] v.t = "str" -> v.s
    [] v.t = "null" -> <<"n", "u", "l", "l">>
    [] v.t = "arr" -> Join(v.a)
    [] OTHER -> <<"u", "n", "d", "e", "f", "i", "n", "e", "d">>

\* ---------------------------------------------------------- projection
\* keys of the projected object, in insertion order
FieldOrder ==
  <<"Created At", "Updated At", "Issue Number", "Name", "Description",
    "Github URL", "Labels", "Status", "Assigned to">>

\* fieldsFromIssue: 'Assigned to' is present only when assignee is truthy
fieldsFromIssue(issue) ==
  LET base ==
        [k \in {"Created At", "Updated At", "Issue Number", "Name",
                "Description", "Github URL", "Labels", "Status"} |->
           CASE k = "Created At" -> issue.created_at
             [] k = "Updated At" -> issue.updated_at
             [] k = "Issue Number" -> Num(issue.number)
             [] k = "Name" -> issue.title
             [] k = "Description" -> issue.body
             [] k = "Github URL" -> issue.html_url
             [] k = "Labels" -> Str(Join(issue.labels))
             [] OTHER -> issue.state]
  IN IF Falsy(issue.assignee) THEN base
     ELSE base @@ ("Assigned to" :> Str(<<"@">> \o issue.assignee.s))

\* const { 'Created At': _, 'Updated At': _2, ...fields } = fieldsFromIssue(issue)
comparedKeysAll(fields) == SelectSeq(FieldOrder, LAMBDA k : k \in DOMAIN fields)

comparedKeys(fields) ==
  SelectSeq(FieldOrder,
            LAMBDA k : k \in DOMAIN fields /\ k \notin {"Created At", "Updated At"})

\* --------------------------------------------------- update-needed test
\* body of `if (existingRow.fields[key] instanceof Array) { ... }`;
\* projected is the string fields[key]
arrayDiffers(existing, projected) ==
  LET existingArrValues == NonEmpty(existing.a)
      newArrValues == NonEmpty(Split(projected.s))
  IN IF Len(existingArrValues) > 0 /\ Falsy(projected) THEN TRUE
     ELSE IF Len(existingArrValues) # Len(newArrValues) THEN TRUE
     ELSE \E i \in DOMAIN newArrValues : newArrValues[i] \notin Range(existingArrValues)

RECURSIVE scanKeys(_, _, _)
\* for (const key in fields) { ... } return false
scanKeys(fields, existingFields, keys) ==
  IF keys = <<>> THEN FALSE
  ELSE LET key == Head(keys)
       IN IF IsArray(Get(existingFields, key))
          THEN arrayDiffers(Get(existingFields, key), fields[key])
          ELSE IF OrUndefined(Get(existingFields, key)) # OrUndefined(fields[key])
          THEN TRUE
          ELSE scanKeys(fields, existingFields, Tail(keys))

\* every matched issue is rewritten, whatever is stored
needsUpdateAlways(issue, existingRow) == TRUE

\* the filter callback of updateExistingRows
needsUpdate(issue, existingRow) ==
  LET fields == fieldsFromIssue(issue)
  IN scanKeys(fields, existingRow.fields, comparedKeys(fields))

\* ------------------------------------------------------------ chunking
Min(x, y) == IF x < y THEN x ELSE y

\* Array.prototype.slice(from, to) with 0 <= from <= to
Slice(xs, from, to) == SubSeq(xs, from + 1, Min(to, Len(xs)))

RECURSIVE chunksFrom9(_, _)
chunksFrom9(rows, startIndex) ==
  IF startIndex < Len(rows)
  THEN <<Slice(rows, startIndex, startIndex + ChunkSize - 1)>>
         \o chunksFrom9(rows, startIndex + ChunkSize)
  ELSE <<>>

RECURSIVE chunksFrom(_, _)
\* for (let startIndex = 0; startIndex < rows.length; startIndex += 10)
\*   chunks.push(rows.slice(startIndex, startIndex + 10))
chunksFrom(rows, startIndex) ==
  IF startIndex < Len(rows)
  THEN <<Slice(rows, startIndex, startIndex + ChunkSize)>>
         \o chunksFrom(rows, startIndex + ChunkSize)
  ELSE <<>>

\* ------------------------------------------------- join by issue number
RECURSIVE fromEntriesFirst(_, _)
\* the first entry with a key is kept
fromEntriesFirst(entries, acc) ==
  IF entries = <<>> THEN acc
  ELSE LET e == Head(entries)
       IN fromEntriesFirst(Tail(entries), acc @@ (e[1] :> e[2]))

RECURSIVE fromEntries(_, _)
\* Object.fromEntries: a later entry with the same key overwrites
fromEntries(entries, acc) ==
  IF entries = <<>> THEN acc
  ELSE LET e == Head(entries)
       IN fromEntries(Tail(entries),
                      (e[1] :> e[2]) @@ acc)

\* the rows keyed by their identifier instead of their issue number
rowEntriesById(rows) ==
  [i \in DOMAIN rows |-> <<PropertyKey(Num(rows[i].id)), rows[i]>>]

\* existingRows.map((row) => [row.fields['Issue Number'], row])
rowEntries(rows) ==
  [i \in DOMAIN rows |-> <<PropertyKey(Get(rows[i].fields, "Issue Number")), rows[i]>>]

\* issueNumbersToExistingRows[i.number] is truthy
hasExistingRow(map, issue) == PropertyKey(Num(issue.number)) \in DOMAIN map

lookupRow(map, issue) == map[PropertyKey(Num(issue.number))]

\* ------------------------------------------------------------ the state
VARIABLES
  pc,                          \* position of githubAirtableImport
  runNo,                       \* number of the current invocation
  source,                      \* what the issue listing call returns
  table,                       \* rows of the destination table, in read order
  issues,                      \* const issues = await fetchGithubIssues()
  existingRows,                \* const existingRows = await getExistingAirtableIssueRows()
  issueNumbersToExistingRows,  \* the join map
  newIssues,                   \* argument of insertNewRows
  existingIssues,              \* argument of updateExistingRows
  rowsToUpdate,                \* rowsToUpdate of updateExistingRows
  chunks,                      \* chunks of the function being executed
  startIdx,                    \* next chunk to hand to chunks.map
  calls,                       \* create/update calls made in this run
  result,                      \* value importIssuesToAirtable resolves to
  logged,                      \* messages written by log / spinners
  error,                       \* error that left githubAirtableImport
  failures,                    \* collaborator calls that failed in this run
  prevRun                      \* how the previous invocation ended

vars ==
  <<pc, runNo, source, table, issues, existingRows, issueNumbersToExistingRows,
    newIssues, existingIssues, rowsToUpdate, chunks, startIdx, calls, result,
    logged, error, failures, prevRun>>

\* identifiers that resolve inside githubAirtableImport and its closures
DeclaredIdentifiers ==
  {"Octokit", "Airtable", "ora", "chalk", "log", "githubAirtableImport",
   "validateOptions", "options", "octokit", "airtable", "airtableTable",
   "owner", "repo", "fetchGithubIssues", "fieldsFromIssue",
   "getExistingAirtableIssueRows", "importIssuesToAirtable", "githubSpinner",
   "issues", "airtableGetSpinner", "existingRows", "airtableSaveSpinner",
   "numNewRows", "numUpdatedRows", "err", "console", "process", "require",
   "module"}

UndefinedIssues == [def |-> FALSE, v |-> <<>>]
UndefinedResult == [def |-> FALSE, numNewRows |-> 0, numUpdatedRows |-> 0]
NoRun == [ok |-> FALSE, written |-> 0]

\* state of the locals at the start of an invocation
FreshLocals ==
  /\ pc = "fetch"
  /\ issues = UndefinedIssues
  /\ existingRows = <<>>
  /\ issueNumbersToExistingRows = <<>>
  /\ newIssues = <<>>
  /\ existingIssues = <<>>
  /\ rowsToUpdate = <<>>
  /\ chunks = <<>>
  /\ startIdx = 1
  /\ calls = <<>>
  /\ result = UndefinedResult
  /\ logged = {}
  /\ error = "none"
  /\ failures = {}

\* -------------------------------------------------------------- actions
\* fetchGithubIssues, try branch: paginate resolves, pull requests are dropped
FetchGithubIssuesReturn ==
  /\ pc = "fetch"
  /\ issues' = [def |-> TRUE, v |-> SelectSeq(source, LAMBDA i : ~i.pull_request)]
  /\ pc' = "retrieved"
  /\ UNCHANGED <<runNo, source, table, existingRows, issueNumbersToExistingRows,
                 newIssues, existingIssues, rowsToUpdate, chunks, startIdx, calls,
                 result, logged, error, failures, prevRun>>

\* fetchGithubIssues: octokit.paginate rejects, control enters the catch block
FetchGithubIssuesReject ==
  /\ pc = "fetch"
  /\ failures' = failures \cup {"fetch"}
  /\ pc' = "fetchCatch"
  /\ UNCHANGED <<runNo, source, table, issues, existingRows,
                 issueNumbersToExistingRows, newIssues, existingIssues,
                 rowsToUpdate, chunks, startIdx, calls, result, logged, error,
                 prevRun>>

\* catch (err) { spinner.fail(...); log(chalk.red(err)) } : reading an
\* identifier that is not declared throws a ReferenceError out of the catch
FetchGithubIssuesCatch ==
  /\ pc = "fetchCatch"
  /\ IF "spinner" \in DeclaredIdentifiers
     THEN /\ logged' = logged \cup {"Failed to fetch issues", "fetch error"}
          /\ issues' = UndefinedIssues
          /\ pc' = "retrieved"
          /\ error' = error
     ELSE /\ error' = "ReferenceError"
          /\ pc' = "uncaught"
          /\ UNCHANGED <<logged, issues>>
  /\ UNCHANGED <<runNo, source, table, existingRows, issueNumbersToExistingRows,
                 newIssues, existingIssues, rowsToUpdate, chunks, startIdx, calls,
                 result, failures, prevRun>>

\* githubSpinner.succeed(`Retrieved ${issues.length} issues from Github`)
RetrievedIssues ==
  /\ pc = "retrieved"
  /\ IF issues.def
     THEN /\ logged' = logged \cup {"Retrieved issues from Github"}
          /\ pc' = "getRows"
          /\ error' = error
     ELSE /\ error' = "TypeError"
          /\ pc' = "uncaught"
          /\ logged' = logged
  /\ UNCHANGED <<runNo, source, table, issues, existingRows,
                 issueNumbersToExistingRows, newIssues, existingIssues,
                 rowsToUpdate, chunks, startIdx, calls, result, failures, prevRun>>

\* getExistingAirtableIssueRows resolves with every row of the table
GetExistingAirtableIssueRows ==
  /\ pc = "getRows"
  /\ existingRows' = table
  /\ logged' = logged \cup {"Retrieved issues from Airtable"}
  /\ pc' = "import"
  /\ UNCHANGED <<runNo, source, table, issues, issueNumbersToExistingRows,
                 newIssues, existingIssues, rowsToUpdate, chunks, startIdx, calls,
                 result, error, failures, prevRun>>

\* getExistingAirtableIssueRows rejects: nothing catches it
GetExistingAirtableIssueRowsReject ==
  /\ pc = "getRows"
  /\ failures' = failures \cup {"rows"}
  /\ error' = "AirtableError"
  /\ pc' = "uncaught"
  /\ UNCHANGED <<runNo, source, table, issues, existingRows,
                 issueNumbersToExistingRows, newIssues, existingIssues,
                 rowsToUpdate, chunks, startIdx, calls, result, logged, prevRun>>

\* importIssuesToAirtable: the join map is built
ImportIssuesToAirtable ==
  /\ pc = "import"
  /\ issueNumbersToExistingRows' = fromEntries(rowEntries(existingRows), <<>>)
  /\ pc' = "insertNewRows"
  /\ UNCHANGED <<runNo, source, table, issues, existingRows, newIssues,
                 existingIssues, rowsToUpdate, chunks, startIdx, calls, result,
                 logged, error, failures, prevRun>>

\* insertNewRows(issues.filter((i) => !issueNumbersToExistingRows[i.number])):
\* newRows and chunks are computed
InsertNewRows ==
  /\ pc = "insertNewRows"
  /\ LET arg == SelectSeq(issues.v,
                          LAMBDA i : ~hasExistingRow(issueNumbersToExistingRows, i))
         newRows == [k \in DOMAIN arg |-> [id |-> 0, fields |-> fieldsFromIssue(arg[k])]]
     IN /\ newIssues' = arg
        /\ chunks' = chunksFrom(newRows, 0)
  /\ startIdx' = 1
  /\ pc' = "createDispatch"
  /\ UNCHANGED <<runNo, source, table, issues, existingRows,
                 issueNumbersToExistingRows, existingIssues, rowsToUpdate, calls,
                 result, logged, error, failures, prevRun>>

\* chunks.map((chunk) => airtableTable.create(chunk, { typecast: true })), one chunk
CreateDispatch ==
  /\ pc = "createDispatch"
  /\ startIdx <= Len(chunks)
  /\ calls' = Append(calls, [op |-> "create", records |-> chunks[startIdx],
                             status |-> "pending"])
  /\ startIdx' = startIdx + 1
  /\ UNCHANGED <<pc, runNo, source, table, issues, existingRows,
                 issueNumbersToExistingRows, newIssues, existingIssues,
                 rowsToUpdate, chunks, result, logged, error, failures, prevRun>>

\* insertNewRows reaches `await Promise.all(...)` and hands its promise back
InsertNewRowsAwait ==
  /\ pc = "createDispatch"
  /\ startIdx > Len(chunks)
  /\ pc' = "updateExistingRows"
  /\ UNCHANGED <<runNo, source, table, issues, existingRows,
                 issueNumbersToExistingRows, newIssues, existingIssues,
                 rowsToUpdate, chunks, startIdx, calls, result, logged, error,
                 failures, prevRun>>

\* updateExistingRows(issues.filter((i) => issueNumbersToExistingRows[i.number])):
\* the filter, the map and the chunks are computed
UpdateExistingRows ==
  /\ pc = "updateExistingRows"
  /\ LET arg == SelectSeq(issues.v,
                          LAMBDA i : hasExistingRow(issueNumbersToExistingRows, i))
         changed == SelectSeq(arg,
                      LAMBDA i : needsUpdate(i, lookupRow(issueNumbersToExistingRows, i)))
         rows == [k \in DOMAIN changed |->
                    [id |-> lookupRow(issueNumbersToExistingRows, changed[k]).id,
                     fields |-> fieldsFromIssue(changed[k])]]
     IN /\ existingIssues' = arg
        /\ rowsToUpdate' = rows
        /\ chunks' = chunksFrom(rows, 0)
  /\ startIdx' = 1
  /\ pc' = "updateDispatch"
  /\ UNCHANGED <<runNo, source, table, issues, existingRows,
                 issueNumbersToExistingRows, newIssues, calls, result, logged,
                 error, failures, prevRun>>

\* chunks.map((chunk) => airtableTable.update(chunk, { typecast: true })), one chunk
UpdateDispatch ==
  /\ pc = "updateDispatch"
  /\ startIdx <= Len(chunks)
  /\ calls' = Append(calls, [op |-> "update", records |-> chunks[startIdx],
                             status |-> "pending"])
  /\ startIdx' = startIdx + 1
  /\ UNCHANGED <<pc, runNo, source, table, issues, existingRows,
                 issueNumbersToExistingRows, newIssues, existingIssues,
                 rowsToUpdate, chunks, result, logged, error, failures, prevRun>>

\* updateExistingRows reaches its await; importIssuesToAirtable awaits both
UpdateExistingRowsAwait ==
  /\ pc = "updateDispatch"
  /\ startIdx > Len(chunks)
  /\ pc' = "await"
  /\ UNCHANGED <<runNo, source, table, issues, existingRows,
                 issueNumbersToExistingRows, newIssues, existingIssues,
                 rowsToUpdate, chunks, startIdx, calls, result, logged, error,
                 failures, prevRun>>

\* what the destination holds after a create call: one new row per record,
\* appended in read order, each with a fresh identifier
created(rows, records) ==
  rows \o [k \in DOMAIN records |->
             [id |-> Len(rows) + k, fields |-> records[k].fields]]

RECURSIVE updated(_, _)
\* what the destination holds after an update call: the written fields
\* replace the stored ones of the row with the record's identifier
updated(rows, records) ==
  IF records = <<>> THEN rows
  ELSE LET r == Head(records)
       IN updated([k \in DOMAIN rows |->
                     IF rows[k].id = r.id
                     THEN [id |-> r.id, fields |-> r.fields @@ rows[k].fields]
                     ELSE rows[k]],
                  Tail(records))

\* responses handled as soon as insertNewRows has made its calls
responsesHandledEarly ==
  pc \in {"updateExistingRows", "updateDispatch", "await", "destructure", "done",
          "uncaught"}

\* responses are handled only once the synchronous part of
\* importIssuesToAirtable has run to its await
responsesHandled == pc \in {"await", "destructure", "done", "uncaught"}

\* a create/update call resolves: the destination has stored the records
CallResolve(c) ==
  /\ responsesHandled
  /\ c \in DOMAIN calls
  /\ calls[c].status = "pending"
  /\ calls' = [calls EXCEPT ![c].status = "ok"]
  /\ table' = IF calls[c].op = "create"
              THEN created(table, calls[c].records)
              ELSE updated(table, calls[c].records)
  /\ UNCHANGED <<pc, runNo, source, issues, existingRows,
                 issueNumbersToExistingRows, newIssues, existingIssues,
                 rowsToUpdate, chunks, startIdx, result, logged, error, failures,
                 prevRun>>

\* a create/update call rejects: nothing is stored
CallReject(c) ==
  /\ responsesHandled
  /\ c \in DOMAIN calls
  /\ calls[c].status = "pending"
  /\ calls' = [calls EXCEPT ![c].status = "failed"]
  /\ failures' = failures \cup {"write"}
  /\ UNCHANGED <<pc, runNo, source, table, issues, existingRows,
                 issueNumbersToExistingRows, newIssues, existingIssues,
                 rowsToUpdate, chunks, startIdx, result, logged, error, prevRun>>

RECURSIVE written(_, _)
\* results.reduce((memo, chunkResult) => memo + chunkResult.length, 0)
written(cs, op) ==
  IF cs = <<>> THEN 0
  ELSE (IF Head(cs).op = op THEN Len(Head(cs).records) ELSE 0) + written(Tail(cs), op)

\* both Promise.all resolve: return { numNewRows, numUpdatedRows }
ImportReturn ==
  /\ pc = "await"
  /\ \A c \in DOMAIN calls : calls[c].status = "ok"
  /\ result' = [def |-> TRUE, numNewRows |-> written(calls, "create"),
                numUpdatedRows |-> written(calls, "update")]
  /\ pc' = "destructure"
  /\ UNCHANGED <<runNo, source, table, issues, existingRows,
                 issueNumbersToExistingRows, newIssues, existingIssues,
                 rowsToUpdate, chunks, startIdx, calls, logged, error, failures,
                 prevRun>>

\* a call rejected: catch (err) { log(`Could not import ...`) }, no return value
ImportCatch ==
  /\ pc = "await"
  /\ \E c \in DOMAIN calls : calls[c].status = "failed"
  /\ logged' = logged \cup {"Could not import to Airtable base or table"}
  /\ result' = UndefinedResult
  /\ pc' = "destructure"
  /\ UNCHANGED <<runNo, source, table, issues, existingRows,
                 issueNumbersToExistingRows, newIssues, existingIssues,
                 rowsToUpdate, chunks, startIdx, calls, error, failures, prevRun>>

\* const { numNewRows, numUpdatedRows } = await importIssuesToAirtable(...)
\* followed by airtableSaveSpinner.succeed(...)
ImportResult ==
  /\ pc = "destructure"
  /\ IF result.def
     THEN /\ logged' = logged \cup {"Imported issues into Airtable"}
          /\ pc' = "done"
          /\ error' = error
     ELSE /\ error' = "TypeError"
          /\ pc' = "uncaught"
          /\ logged' = logged
  /\ UNCHANGED <<runNo, source, table, issues, existingRows,
                 issueNumbersToExistingRows, newIssues, existingIssues,
                 rowsToUpdate, chunks, startIdx, calls, result, failures, prevRun>>

\* the importer is invoked a second time on the same issue listing
NextRun ==
  /\ pc \in {"done", "uncaught"}
  /\ runNo = 1
  /\ runNo' = runNo + 1
  /\ prevRun' = [ok |-> (pc = "done" /\ \A c \in DOMAIN calls : calls[c].status = "ok"),
                 written |-> written(calls, "create") + written(calls, "update")]
  /\ pc' = "fetch"
  /\ issues' = UndefinedIssues
  /\ existingRows' = <<>>
  /\ issueNumbersToExistingRows' = <<>>
  /\ newIssues' = <<>>
  /\ existingIssues' = <<>>
  /\ rowsToUpdate' = <<>>
  /\ chunks' = <<>>
  /\ startIdx' = 1
  /\ calls' = <<>>
  /\ result' = UndefinedResult
  /\ logged' = {}
  /\ error' = "none"
  /\ failures' = {}
  /\ UNCHANGED <<source, table>>

Next ==
  \/ FetchGithubIssuesReturn
  \/ FetchGithubIssuesReject
  \/ FetchGithubIssuesCatch
  \/ RetrievedIssues
  \/ GetExistingAirtableIssueRows
  \/ GetExistingAirtableIssueRowsReject
  \/ ImportIssuesToAirtable
  \/ InsertNewRows
  \/ CreateDispatch
  \/ InsertNewRowsAwait
  \/ UpdateExistingRows
  \/ UpdateDispatch
  \/ UpdateExistingRowsAwait
  \/ \E c \in 1..Len(calls) : CallResolve(c)
  \/ \E c \in 1..Len(calls) : CallReject(c)
  \/ ImportReturn
  \/ ImportCatch
  \/ ImportResult
  \/ NextRun

\* ------------------------------------------------------------- inputs
A == <<"a">>
B == <<"b">>
AB == <<"a", ",", "b">>
OPEN == Str(<<"o", "p", "e", "n">>)
CLOSED == Str(<<"c", "l", "o", "s", "e", "d">>)
ALICE == Str(<<"a", "l", "i", "c", "e">>)

\* an item of the issue listing
Issue(number, labels, assignee, state, pr) ==
  [created_at |-> Str(<<"t", "1">>), updated_at |-> Str(<<"t", "2">>),
   title |-> Str(<<"x">>), body |-> Null,
   html_url |-> Str(<<"u">> \o Decimal(number)), number |-> number,
   labels |-> labels, assignee |-> assignee, state |-> state,
   pull_request |-> pr]

\* sequences over S of length at most n
SeqUpTo(S, n) == UNION {[1..k -> S] : k \in 0..n}

\* rows of a table holding the given field objects
Rows(fs) == [k \in DOMAIN fs |-> [id |-> k, fields |-> fs[k]]]

\* the fields of f with the entries of g written over them
With(f, g) == g @@ f

OldStamps == ("Created At" :> Str(<<"t", "0">>)) @@ ("Updated At" :> Str(<<"t", "0">>))

\* issue numbers of the small inputs
IssueNumbers == {1, 2}

SmallIssues ==
  {Issue(n, <<A>>, Null, OPEN, FALSE) : n \in IssueNumbers}
    \cup {Issue(n, <<>>, ALICE, CLOSED, FALSE) : n \in IssueNumbers}
    \cup {Issue(1, <<>>, Null, OPEN, TRUE)}

SmallRowFields ==
  {With(fieldsFromIssue(Issue(n, <<A>>, Null, OPEN, FALSE)), OldStamps) : n \in IssueNumbers}
    \cup {With(fieldsFromIssue(Issue(n, <<A>>, Null, OPEN, FALSE)),
               ("Labels" :> Arr(<<A>>)) @@ ("Status" :> CLOSED)) : n \in IssueNumbers}
    \cup {("Name" :> Str(<<"x">>))}

Init ==
  /\ runNo = 1
  /\ prevRun = NoRun
  /\ source \in SeqUpTo(SmallIssues, MaxIssues)
  /\ table \in {Rows(fs) : fs \in SeqUpTo(SmallRowFields, MaxRows)}
  /\ FreshLocals

Spec == Init /\ [][Next]_vars

\* one issue against at most one stored row, over every stored representation
DiffIssues ==
  {[Issue(1, ls, as, st, FALSE) EXCEPT !.body = body] :
     ls \in {<<>>, <<A>>, <<A, B>>, <<B, A>>, <<A, AB>>},
     as \in {Null, ALICE}, st \in {OPEN, CLOSED}, body \in {Null, Str(<<"d">>)}}

Optional(key, values) == {<<>>} \cup {(key :> v) : v \in values}

DiffRowFields ==
  {labels @@ assigned @@ stamps @@ description @@
     ("Issue Number" :> Num(1)) @@ ("Name" :> Str(<<"x">>)) @@
     ("Github URL" :> Str(<<"u", "1">>)) @@ ("Status" :> st) :
     labels \in Optional("Labels",
                  {Str(<<>>), Str(A), Str(AB), Arr(<<>>), Arr(<<A>>), Arr(<<A, B>>),
                   Arr(<<B, A>>), Arr(<<A, A>>), Arr(<<<<>>, A>>)}),
     assigned \in Optional("Assigned to", {Str(<<>>), Str(<<"@">> \o ALICE.s)}),
     stamps \in {OldStamps,
                 ("Created At" :> Str(<<"t", "1">>)) @@ ("Updated At" :> Str(<<"t", "2">>))},
     description \in Optional("Description", {Str(<<"d">>)}),
     st \in {OPEN, CLOSED}}

InitDiff ==
  /\ runNo = 1
  /\ prevRun = NoRun
  /\ source \in {<<i>> : i \in DiffIssues}
  /\ table \in {<<>>} \cup {Rows(<<f>>) : f \in DiffRowFields}
  /\ FreshLocals

SpecDiff == InitDiff /\ [][Next]_vars

\* n issues numbered 1..n, the first m of them stored with another Status
BulkIssues(n) == [i \in 1..n |-> Issue(i, <<A>>, Null, OPEN, FALSE)]

BulkRows(m) ==
  Rows([i \in 1..m |-> With(fieldsFromIssue(BulkIssues(m)[i]), ("Status" :> CLOSED))])

InitBulk ==
  /\ runNo = 1
  /\ prevRun = NoRun
  /\ \E n \in 0..MaxBulk : \E m \in {0, n \div 2, n} :
       /\ source = BulkIssues(n)
       /\ table = BulkRows(m)
  /\ FreshLocals

SpecBulk == InitBulk /\ [][Next]_vars

\* ================================================================ claims
\* both filters of importIssuesToAirtable have been evaluated in this run
Partitioned ==
  \/ pc \in {"updateDispatch", "await", "destructure", "done"}
  \/ pc = "uncaught" /\ "write" \in failures

\* C3: the issues given to insertNewRows and to updateExistingRows are
\* disjoint and together are all issues; an issue is inserted exactly when
\* no existing row has its issue number; no issue number is both created and
\* updated; with no existing rows everything is inserted.
C3_Partition ==
  LET noRow(i) == \A r \in DOMAIN existingRows :
                    Get(existingRows[r].fields, "Issue Number") # Num(i.number)
  IN /\ pc \in {"createDispatch", "updateExistingRows"} \/ Partitioned
          => newIssues = SelectSeq(issues.v, noRow)
     /\ Partitioned =>
          /\ existingIssues = SelectSeq(issues.v, LAMBDA i : ~noRow(i))
          /\ Len(newIssues) + Len(existingIssues) = Len(issues.v)
          /\ \A c, d \in DOMAIN calls :
               calls[c].op = "create" /\ calls[d].op = "update" =>
                 \A k \in DOMAIN calls[c].records, l \in DOMAIN calls[d].records :
                   calls[c].records[k].fields["Issue Number"]
                     # calls[d].records[l].fields["Issue Number"]
          /\ existingRows = <<>> => newIssues = issues.v /\ existingIssues = <<>>

C3_Witness ==
  /\ pc = "done"
  /\ newIssues # <<>>
  /\ existingIssues # <<>>
  /\ \E c, d \in DOMAIN calls : calls[c].op = "create" /\ calls[d].op = "update"

\* C10: every update record carries the identifier of the last existing row
\* whose 'Issue Number' is the issue's number and the full projection of an
\* issue with that number; the other rows with that number are not written;
\* with unique issue numbers no identifier occurs in two update records.
C10_UpdateTarget ==
  LET upd == {c \in DOMAIN calls : calls[c].op = "update"}
      rowsOf(num) == {r \in DOMAIN existingRows :
                        Get(existingRows[r].fields, "Issue Number") = num}
      last(S) == CHOOSE r \in S : \A q \in S : q <= r
      unique == \A i, j \in DOMAIN issues.v :
                  issues.v[i].number = issues.v[j].number => i = j
  IN /\ \A c \in upd : \A k \in DOMAIN calls[c].records :
          LET rec == calls[c].records[k]
              num == rec.fields["Issue Number"]
          IN /\ rowsOf(num) # {}
             /\ rec.id = existingRows[last(rowsOf(num))].id
             /\ \E i \in DOMAIN issues.v :
                  /\ issues.v[i].number = num.n
                  /\ rec.fields = fieldsFromIssue(issues.v[i])
     /\ \A r \in DOMAIN existingRows :
          LET num == Get(existingRows[r].fields, "Issue Number")
          IN r # last(rowsOf(num)) => table[r] = existingRows[r]
     /\ unique =>
          \A c, d \in upd : \A k \in DOMAIN calls[c].records, l \in DOMAIN calls[d].records :
            calls[c].records[k].id = calls[d].records[l].id => c = d /\ k = l

C10_Witness ==
  \E c \in DOMAIN calls :
    /\ calls[c].op = "update"
    /\ calls[c].status = "ok"
    /\ \E r, q \in DOMAIN existingRows :
         /\ r < q
         /\ existingRows[q].id = calls[c].records[1].id
         /\ Get(existingRows[r].fields, "Issue Number")
              = Get(existingRows[q].fields, "Issue Number")
         /\ table[q].fields = calls[c].records[1].fields

Classified ==
  \/ pc \in {"updateDispatch", "await", "destructure", "done"}
  \/ pc = "uncaught" /\ "write" \in failures

\* C9 as stated: no create or update call is made before the update-needed
\* comparison has ended.
C9_NoCallBeforeClassification == calls # <<>> => Classified

\* C9 as amended: no update call is made and no call of either kind is
\* settled before the update-needed comparison has ended, no create call is
\* made before the issues without a row have been selected, and the table is
\* as it was read until the comparison has ended.
C9_NoResponseBeforeClassification ==
  /\ \A c \in DOMAIN calls :
       /\ calls[c].op = "update" => Classified
       /\ calls[c].status # "pending" => Classified
       /\ calls[c].op = "create" =>
            /\ pc \notin {"fetch", "fetchCatch", "retrieved", "getRows", "import",
                          "insertNewRows"}
            /\ \E k \in DOMAIN newIssues :
                 fieldsFromIssue(newIssues[k]) = calls[c].records[1].fields
  /\ pc \in {"import", "insertNewRows", "createDispatch", "updateExistingRows"}
       => table = existingRows

C9_Witness ==
  /\ pc = "updateExistingRows"
  /\ existingIssues = <<>>
  /\ \E c \in DOMAIN calls : calls[c].op = "create" /\ calls[c].status = "pending"
  /\ \E i \in DOMAIN issues.v : hasExistingRow(issueNumbersToExistingRows, issues.v[i])

\* C7 as stated: after a create or update call failed, the run logs the
\* error and ends with its final status report.
C7_WriteFailureCompletes ==
  "write" \in failures /\ pc \in {"done", "uncaught"} =>
    /\ pc = "done"
    /\ "Could not import to Airtable base or table" \in logged
    /\ "Imported issues into Airtable" \in logged

\* C8 as stated: after the issue listing failed, the failure is logged, the
\* fetch result is undefined and the run goes on past the fetch step.
C8_FetchFailureProceeds ==
  "fetch" \in failures /\ pc # "fetchCatch" =>
    /\ pc # "uncaught"
    /\ "fetch error" \in logged
    /\ ~issues.def

\* C1 as stated: a matched issue is selected for update exactly when some
\* projected field other than the two timestamps differs from the stored
\* field under the per-field rule; in particular whenever Status or
\* 'Assigned to' differs, whatever the stored representation of Labels.
C1_SelectedIffSomeFieldDiffers ==
  Partitioned =>
    \A i \in DOMAIN existingIssues :
      LET fields == fieldsFromIssue(existingIssues[i])
          stored == lookupRow(issueNumbersToExistingRows, existingIssues[i]).fields
          differs(key) ==
            IF IsArray(Get(stored, key))
            THEN arrayDiffers(Get(stored, key), fields[key])
            ELSE OrUndefined(Get(stored, key)) # OrUndefined(Get(fields, key))
          selected == \E k \in DOMAIN rowsToUpdate : rowsToUpdate[k].fields = fields
      IN /\ selected <=>
              \E key \in DOMAIN fields \ {"Created At", "Updated At"} : differs(key)
         /\ differs("Status") \/ differs("Assigned to") => selected

\* C4 as stated: against a stored list, the Labels comparison declares a
\* difference exactly when the set of non-empty stored entries differs from
\* the set of non-empty comma-separated tokens of the projected value.
C4_LabelsSetEquality ==
  Partitioned =>
    \A i \in DOMAIN existingIssues :
      LET fields == fieldsFromIssue(existingIssues[i])
          stored == lookupRow(issueNumbersToExistingRows, existingIssues[i]).fields
          earlierEqual ==
            \A key \in {"Issue Number", "Name", "Description", "Github URL"} :
              OrUndefined(Get(stored, key)) = OrUndefined(fields[key])
          selected == \E k \in DOMAIN rowsToUpdate : rowsToUpdate[k].fields = fields
      IN IsArray(Get(stored, "Labels")) /\ earlierEqual =>
           (selected <=>
              Range(NonEmpty(stored["Labels"].a))
                # Range(NonEmpty(Split(fields["Labels"].s))))

\* C5: a matched issue whose projected fields other than 'Created At' and
\* 'Updated At' all equal the stored ones is in no update call.
C5_TimestampsNeverTrigger ==
  Partitioned =>
    \A i \in DOMAIN existingIssues :
      LET fields == fieldsFromIssue(existingIssues[i])
          S == {r \in DOMAIN existingRows :
                  Get(existingRows[r].fields, "Issue Number") = fields["Issue Number"]}
          stored == existingRows[CHOOSE r \in S : \A q \in S : q <= r].fields
      IN (\A key \in DOMAIN fields \ {"Created At", "Updated At"} :
            key \in DOMAIN stored /\ stored[key] = fields[key])
         => /\ \A k \in DOMAIN rowsToUpdate : rowsToUpdate[k].fields # fields
            /\ \A c \in DOMAIN calls :
                 calls[c].op = "update" =>
                   \A k \in DOMAIN calls[c].records : calls[c].records[k].fields # fields

C5_Witness ==
  /\ pc = "done"
  /\ runNo = 1
  /\ \E i \in DOMAIN existingIssues :
       LET fields == fieldsFromIssue(existingIssues[i])
           stored == existingRows[1].fields
       IN /\ Len(existingRows) = 1
          /\ \A key \in DOMAIN fields \ {"Created At", "Updated At"} :
               key \in DOMAIN stored /\ stored[key] = fields[key]
          /\ stored["Created At"] # fields["Created At"]
          /\ stored["Updated At"] # fields["Updated At"]
          /\ "Assigned to" \in DOMAIN fields

\* every chunk of the function being executed has been handed to the table
AllDispatched ==
  \/ pc \in {"await", "destructure", "done"}
  \/ pc = "uncaught" /\ "write" \in failures

\* C6: for n records insertNewRows and updateExistingRows each make
\* ceil(n/10) calls, all made before any is settled; every call carries 1 to
\* 10 records, all but the last carry 10, the calls carry consecutive slices
\* that are the whole input in order, and the returned count is n.
C6_Chunking ==
  LET newRows == [k \in DOMAIN newIssues |->
                    [id |-> 0, fields |-> fieldsFromIssue(newIssues[k])]]
      sliced(op, input) ==
        LET cs == SelectSeq(calls, LAMBDA c : c.op = op)
            n == Len(input)
        IN /\ Len(cs) * ChunkSize >= n
           /\ Len(cs) * ChunkSize < n + ChunkSize
           /\ \A c \in DOMAIN cs :
                /\ Len(cs[c].records) >= 1
                /\ Len(cs[c].records) <= ChunkSize
                /\ c < Len(cs) => Len(cs[c].records) = ChunkSize
                /\ \A k \in DOMAIN cs[c].records :
                     cs[c].records[k] = input[(c - 1) * ChunkSize + k]
           /\ written(cs, op) = n
  IN /\ \A c \in DOMAIN calls : calls[c].status # "pending" => AllDispatched
     /\ AllDispatched => sliced("create", newRows) /\ sliced("update", rowsToUpdate)
     /\ result.def =>
          /\ result.numNewRows = Len(newIssues)
          /\ result.numUpdatedRows = Len(rowsToUpdate)

C6_Witness ==
  /\ pc = "done"
  /\ runNo = 1
  /\ Len(newIssues) = 23
  /\ result.numNewRows = 23
  /\ Len(calls) = 3
  /\ Len(calls[1].records) = 10
  /\ Len(calls[2].records) = 10
  /\ Len(calls[3].records) = 3
====
